---- MODULE Spec2Model ----
(***************************************************************************)
(* my-coin-flip: the deposit view (src/src/App.js) and the contract        *)
(* start-up and integration tests (src/unnamed/part_000).                  *)
(*                                                                         *)
(* Decimal strings of the contract (credits, attached amounts) are         *)
(* sequences of digits, most significant first; the text of depositInput   *)
(* and error texts are sequences of characters.                            *)
(* Time is counted in seconds.                                             *)
(***************************************************************************)
EXTENDS Integers, Sequences, FiniteSets

\* ------------------------------------------------------------- bounds
\* Submissions of the form per page load.
MaxSubmits == 2

\* ---------------------------------------------------------- constants
\* setTimeout(..., 11000): the hide delay, in seconds.
HideDelay == 11
\* parseNearAmount('10') is 10 followed by 24 zeros.
NearNominationExp == 24

Accounts == {"alice.testnet", "bob.testnet"}

\* depositInput.value, over digits, "." and ",": '' (nothing typed),
\* '1.2.3' (no amount), '0.5' (a fraction of a unit) and '10' (whole units).
DepositInputs ==
  { <<>>,
    <<"1", ".", "2", ".", "3">>,
    <<"0", ".", "5">>,
    <<"1", "0">> }

\* React.useState(): credits before any setCredits.
Undefined == <<>>

\* The pattern of /Already initialized!/.
AlreadyInitializedPattern ==
  <<"A", "l", "r", "e", "a", "d", "y", " ", "i", "n", "i", "t", "i", "a", "l", "i", "z", "e", "d", "!">>

\* e.toString() when the contract rejects a second new().
AlreadyInitializedError ==
  <<"E", "r", "r", "o", "r", ":", " ", "A", "l", "r", "e", "a", "d", "y", " ", "i", "n", "i", "t", "i", "a", "l", "i", "z", "e", "d", "!">>

\* e.toString() of other failures of the new() call; the last is the empty
\* text.
OtherErrors ==
  { <<"E", "r", "r", "o", "r", ":", " ", "t", "i", "m", "e", "o", "u", "t">>,
    <<"E", "r", "r", "o", "r", ":", " ", "A", "l", "r", "e", "a", "d", "y", " ", "i", "n", "i", "t", "i", "a", "l", "i", "z", "e", "d">>,
    <<>> }

\* How an awaited new() call settles: resolved, or rejected with e whose
\* e.toString() is text.
Resolved == [rejected |-> FALSE, text |-> <<>>]

Rejected(text) == [rejected |-> TRUE, text |-> text]

\* Names bound at module scope of App.js, where getCreditsFromContract is
\* declared. credits, setCredits, showNotification, setShowNotification and
\* GAS are locals of App.
ModuleScope ==
  {"React", "login", "logout", "getConfig", "networkId", "nearAPI", "KeyPair",
   "Account", "parseNearAmount", "App", "Notification", "getCreditsFromContract"}

\* ------------------------------------------------------------ helpers
Max(a, b) == IF a >= b THEN a ELSE b

\* RegExp.prototype.test for a literal pattern: substring search.
RegexTest(pattern, text) ==
  \E i \in 1..(Len(text) - Len(pattern) + 1) :
    SubSeq(text, i, i + Len(pattern) - 1) = pattern

Zeros(n) == [i \in 1..n |-> 0]

RECURSIVE trimLeadingZeroes(_)
trimLeadingZeroes(s) ==
  IF s = <<>> THEN <<0>>
  ELSE IF Head(s) = 0 THEN trimLeadingZeroes(Tail(s))
  ELSE s

DigitChars == <<"0", "1", "2", "3", "4", "5", "6", "7", "8", "9">>

DigitOf(c) == CHOOSE d \in 0..9 : DigitChars[d + 1] = c

ToDigits(s) == [k \in 1..Len(s) |-> DigitOf(s[k])]

\* amount.replace(/,/g, '') of cleanupAmount; the inputs carry no white space
\* for its trim().
cleanupAmount(amount) == SelectSeq(amount, LAMBDA c : c # ",")

\* amt.split('.'): the number of parts, the first part and the second
\* part ('' when there is none).
DotPositions(amt) == {k \in 1..Len(amt) : amt[k] = "."}

SplitLength(amt) == Cardinality(DotPositions(amt)) + 1

NthDot(amt, n) ==
  CHOOSE k \in DotPositions(amt) :
    Cardinality({j \in DotPositions(amt) : j < k}) = n - 1

wholePart(amt) ==
  IF SplitLength(amt) = 1 THEN amt ELSE SubSeq(amt, 1, NthDot(amt, 1) - 1)

fracPart(amt) ==
  IF SplitLength(amt) = 1 THEN <<>>
  ELSE IF SplitLength(amt) = 2 THEN SubSeq(amt, NthDot(amt, 1) + 1, Len(amt))
  ELSE SubSeq(amt, NthDot(amt, 1) + 1, NthDot(amt, 2) - 1)

\* parseNearAmount with the exponent as a parameter: null for '', an error
\* thrown for more than one "." or too many fraction digits, else whole and
\* fraction digits padded to the exponent, leading zeros removed.
ParseAmount(amt, exp) ==
  IF amt = <<>> THEN [kind |-> "null", digits |-> <<>>]
  ELSE LET a == cleanupAmount(amt)
       IN  IF SplitLength(a) > 2 \/ Len(fracPart(a)) > exp
             THEN [kind |-> "throw", digits |-> <<>>]
             ELSE [kind |-> "amount",
                   digits |-> trimLeadingZeroes(
                     ToDigits(wholePart(a)) \o ToDigits(fracPart(a))
                       \o Zeros(exp - Len(fracPart(a))))]

parseNearAmount(amt) == ParseAmount(amt, NearNominationExp)

PadLeft(s, n) == Zeros(n - Len(s)) \o s

RECURSIVE AddDigits(_, _, _, _)
AddDigits(x, y, i, carry) ==
  IF i = 0 THEN (IF carry = 0 THEN <<>> ELSE <<carry>>)
  ELSE LET s == x[i] + y[i] + carry
       IN  AddDigits(x, y, i - 1, s \div 10) \o <<s % 10>>

\* Sum of two decimal strings.
AddDecimal(a, b) ==
  LET n == Max(Len(a), Len(b))
  IN  trimLeadingZeroes(AddDigits(PadLeft(a, n), PadLeft(b, n), n, 0))

\* ------------------------------------------------------------ contract
\* get_credits: the balance of the account, "0" if it never deposited.
ContractGetCredits(bal, account) == bal[account]

\* deposit: credits the caller with the attached amount; a call with null
\* for the amount attaches nothing.
ContractDeposit(bal, caller, attached) ==
  [bal EXCEPT ![caller] =
     AddDecimal(@, IF attached.kind = "null" THEN <<0>> ELSE attached.digits)]


\* ---------------------------------------------------------------- state
VARIABLES
  signedIn,         \* window.walletConnection.isSignedIn()
  accountId,        \* window.accountId
  initialized,      \* the contract has accepted a new() call
  balance,          \* the contract's credits, per account
  initPc,           \* initContract: "idle" or "awaiting" the new() call
  initResult,       \* the last initContract call: "none", "returned", "raised"
  newOutcome,       \* how the last awaited new() call settled
  mounted,          \* App has rendered and its effect has run
  credits,          \* React state credits
  showNotification, \* React state showNotification
  fieldsetDisabled, \* fieldset.disabled
  inflight,         \* deposit calls awaited by submit handlers
  pendingFetches,   \* get_credits calls not yet settled
  timers,           \* seconds left of each pending setTimeout, oldest first
  submits,          \* submit events handled
  getCreditsCalls,  \* get_credits calls issued
  lastFetched,      \* value of the last get_credits call that resolved
  deposited,        \* amounts attached to resolved deposits, per account, in DepositUnit
  alerts,           \* alert() calls
  log               \* side effects of the latest submit handler, in order

vars ==
  <<signedIn, accountId, initialized, balance, initPc, initResult, newOutcome,
    mounted, credits, showNotification, fieldsetDisabled, inflight,
    pendingFetches, timers, submits, getCreditsCalls, lastFetched, deposited,
    alerts, log>>

contractVars == <<initialized, balance, deposited>>
initVars == <<initPc, initResult, newOutcome>>
sessionVars == <<signedIn, accountId>>

\* Numeric value of a string of digit characters.
RECURSIVE NatValue(_)
NatValue(s) ==
  IF s = <<>> THEN 0
  ELSE 10 * NatValue(SubSeq(s, 1, Len(s) - 1)) + DigitOf(s[Len(s)])

RECURSIVE Pow10(_)
Pow10(n) == IF n = 0 THEN 1 ELSE 10 * Pow10(n - 1)

\* The longest fraction among the inputs that parse: deposits are counted
\* in units of 10^-MaxFracLen of a whole unit.
MaxFracLen ==
  LET lens == {0} \cup {Len(fracPart(cleanupAmount(d))) :
                          d \in {x \in DepositInputs : parseNearAmount(x).kind = "amount"}}
  IN  CHOOSE m \in lens : \A l \in lens : l <= m

\* The amount typed, in units of 10^-MaxFracLen; 0 when nothing is typed.
TypedAmount(depositAmount) ==
  LET a == cleanupAmount(depositAmount)
  IN  NatValue(wholePart(a)) * Pow10(MaxFracLen)
        + NatValue(fracPart(a)) * Pow10(MaxFracLen - Len(fracPart(a)))

Init ==
  /\ signedIn \in BOOLEAN
  /\ accountId \in Accounts
  /\ initialized \in BOOLEAN
  /\ balance = [a \in Accounts |-> <<0>>]
  /\ initPc = "idle"
  /\ initResult = "none"
  /\ newOutcome = Resolved
  /\ mounted = FALSE
  /\ credits = Undefined
  /\ showNotification = FALSE
  /\ fieldsetDisabled = FALSE
  /\ inflight = <<>>
  /\ pendingFetches = 0
  /\ timers = <<>>
  /\ submits = 0
  /\ getCreditsCalls = 0
  /\ lastFetched = Undefined
  /\ deposited = [a \in Accounts |-> 0]
  /\ alerts = 0
  /\ log = <<>>

\* --------------------------------------------------------- initContract
\* The catch clause of initContract: what the caller sees, given the
\* outcome of the awaited new() call.
initContractUnconditionalThrow(outcome) ==
  IF ~outcome.rejected THEN "returned" ELSE "raised"

initContract(outcome) ==
  IF ~outcome.rejected THEN "returned"
  ELSE IF ~RegexTest(AlreadyInitializedPattern, outcome.text) THEN "raised"
  ELSE "returned"

\* new(owner_id): what the call can settle with.
ContractNewOutcomes(isInit) ==
  (IF isInit THEN {Rejected(AlreadyInitializedError)} ELSE {Resolved})
    \cup {Rejected(text) : text \in OtherErrors}

\* Start-up calls initContract; a raised error aborts start-up.
CallInitContract ==
  /\ ~mounted
  /\ initPc = "idle"
  /\ initResult # "raised"
  /\ initPc' = "awaiting"
  /\ UNCHANGED <<sessionVars, contractVars, initResult, newOutcome, mounted,
                 credits, showNotification, fieldsetDisabled, inflight,
                 pendingFetches, timers, submits, getCreditsCalls, lastFetched,
                 alerts, log>>

NewSettles ==
  /\ initPc = "awaiting"
  /\ \E outcome \in ContractNewOutcomes(initialized) :
       /\ initialized' = (initialized \/ ~outcome.rejected)
       /\ newOutcome' = outcome
       /\ initResult' = initContract(outcome)
  /\ initPc' = "idle"
  /\ UNCHANGED <<sessionVars, balance, deposited, mounted, credits,
                 showNotification, fieldsetDisabled, inflight, pendingFetches,
                 timers, submits, getCreditsCalls, lastFetched, alerts, log>>

\* ------------------------------------------------------------------ App
\* What App returns: the sign-in prompt, or the main view with the form.
Render == IF ~signedIn THEN "SignInPrompt" ELSE "Main"

\* getCreditsFromContract: the get_credits call, only when signed in.
getCreditsFromContractUnguarded ==
  /\ pendingFetches' = pendingFetches + 1
  /\ getCreditsCalls' = getCreditsCalls + 1

getCreditsFromContract ==
  IF signedIn
    THEN /\ pendingFetches' = pendingFetches + 1
         /\ getCreditsCalls' = getCreditsCalls + 1
    ELSE UNCHANGED <<pendingFetches, getCreditsCalls>>

\* First render and the effect with the empty dependency list.
Mount ==
  /\ ~mounted
  /\ initPc = "idle"
  /\ initResult = "returned"
  /\ mounted' = TRUE
  /\ getCreditsFromContract
  /\ UNCHANGED <<sessionVars, contractVars, initVars, credits,
                 showNotification, fieldsetDisabled, inflight, timers, submits,
                 lastFetched, alerts, log>>

\* The .then callback of get_credits: setCredits(creditsFromContract), with
\* setCredits resolved in the scope of getCreditsFromContract; an unbound
\* name throws a ReferenceError and the state is not set.
ThenCallback(creditsFromContract) ==
  IF "setCredits" \in ModuleScope
    THEN credits' = creditsFromContract
    ELSE UNCHANGED credits

GetCreditsResolves ==
  /\ pendingFetches > 0
  /\ pendingFetches' = pendingFetches - 1
  /\ lastFetched' = ContractGetCredits(balance, accountId)
  /\ ThenCallback(ContractGetCredits(balance, accountId))
  /\ UNCHANGED <<sessionVars, contractVars, initVars, mounted,
                 showNotification, fieldsetDisabled, inflight, timers, submits,
                 getCreditsCalls, alerts, log>>

\* No catch on the get_credits promise: a rejection changes nothing.
GetCreditsRejects ==
  /\ pendingFetches > 0
  /\ pendingFetches' = pendingFetches - 1
  /\ UNCHANGED <<sessionVars, contractVars, initVars, mounted, credits,
                 showNotification, fieldsetDisabled, inflight, timers, submits,
                 getCreditsCalls, lastFetched, alerts, log>>

\* The amount attached to the deposit call.
AttachedAmountUnparsed(depositAmount) == ParseAmount(depositAmount, MaxFracLen)

AttachedAmount(depositAmount) == parseNearAmount(depositAmount)

\* onSubmit up to the await: the fieldset is disabled, the arguments of the
\* call are evaluated and deposit is called. When parseNearAmount throws, no
\* call is issued: catch and finally run in the same step (alert, throw,
\* fieldset enabled). A disabled fieldset submits nothing.
SubmitNoDisable(depositAmount) ==
  /\ mounted
  /\ Render = "Main"
  /\ ~fieldsetDisabled
  /\ submits < MaxSubmits
  /\ submits' = submits + 1
  /\ IF AttachedAmount(depositAmount).kind = "throw"
       THEN /\ fieldsetDisabled' = FALSE
            /\ alerts' = alerts + 1
            /\ log' = <<"alert", "enable", "throw">>
            /\ UNCHANGED inflight
       ELSE /\ UNCHANGED fieldsetDisabled
            /\ inflight' = Append(inflight, [input |-> depositAmount,
                                             attached |-> AttachedAmount(depositAmount)])
            /\ log' = <<"deposit">>
            /\ UNCHANGED alerts
  /\ UNCHANGED <<sessionVars, contractVars, initVars, mounted, credits,
                 showNotification, pendingFetches, timers, getCreditsCalls,
                 lastFetched>>

Submit(depositAmount) ==
  /\ mounted
  /\ Render = "Main"
  /\ ~fieldsetDisabled
  /\ submits < MaxSubmits
  /\ submits' = submits + 1
  /\ IF AttachedAmount(depositAmount).kind = "throw"
       THEN /\ fieldsetDisabled' = FALSE
            /\ alerts' = alerts + 1
            /\ log' = <<"disable", "alert", "enable", "throw">>
            /\ UNCHANGED inflight
       ELSE /\ fieldsetDisabled' = TRUE
            /\ inflight' = Append(inflight, [input |-> depositAmount,
                                             attached |-> AttachedAmount(depositAmount)])
            /\ log' = <<"disable", "deposit">>
            /\ UNCHANGED alerts
  /\ UNCHANGED <<sessionVars, contractVars, initVars, mounted, credits,
                 showNotification, pendingFetches, timers, getCreditsCalls,
                 lastFetched>>

RemoveAt(s, i) == SubSeq(s, 1, i - 1) \o SubSeq(s, i + 1, Len(s))

\* The statements after the try statement: re-fetch, notification, timer.
AfterDeposit ==
  /\ getCreditsFromContract
  /\ showNotification' = TRUE
  /\ timers' = Append(timers, HideDelay)


\* What every settling of an awaited deposit call leaves alone.
SettleFrame == UNCHANGED <<sessionVars, initialized, initVars, mounted, credits,
                           submits, lastFetched>>

\* try/catch/finally and the rest of onSubmit, run when the awaited deposit
\* call settles: resolved (ok) or rejected.
DepositSettlesNoFinally(i, ok) ==
  /\ i \in 1..Len(inflight)
  /\ inflight' = RemoveAt(inflight, i)
  /\ SettleFrame
  /\ IF ok
       THEN /\ balance' = ContractDeposit(balance, accountId, inflight[i].attached)
            /\ deposited' = [deposited EXCEPT ![accountId] = @ + TypedAmount(inflight[i].input)]
            /\ fieldsetDisabled' = FALSE
            /\ AfterDeposit
            /\ log' = log \o <<"settled", "enable", "getCreditsFromContract",
                               "setShowNotification", "setTimeout">>
            /\ UNCHANGED alerts
       ELSE /\ alerts' = alerts + 1
            /\ log' = log \o <<"settled", "alert", "throw">>
            /\ UNCHANGED <<balance, deposited, fieldsetDisabled, pendingFetches,
                           getCreditsCalls, showNotification, timers>>

DepositSettlesNoTimer(i, ok) ==
  /\ i \in 1..Len(inflight)
  /\ inflight' = RemoveAt(inflight, i)
  /\ SettleFrame
  /\ fieldsetDisabled' = FALSE
  /\ IF ok
       THEN /\ balance' = ContractDeposit(balance, accountId, inflight[i].attached)
            /\ deposited' = [deposited EXCEPT ![accountId] = @ + TypedAmount(inflight[i].input)]
            /\ getCreditsFromContract
            /\ showNotification' = TRUE
            /\ log' = log \o <<"settled", "enable", "getCreditsFromContract",
                               "setShowNotification">>
            /\ UNCHANGED <<alerts, timers>>
       ELSE /\ alerts' = alerts + 1
            /\ log' = log \o <<"settled", "alert", "enable", "throw">>
            /\ UNCHANGED <<balance, deposited, pendingFetches, getCreditsCalls,
                           showNotification, timers>>

DepositSettlesEnableLast(i, ok) ==
  /\ i \in 1..Len(inflight)
  /\ inflight' = RemoveAt(inflight, i)
  /\ SettleFrame
  /\ fieldsetDisabled' = FALSE
  /\ IF ok
       THEN /\ balance' = ContractDeposit(balance, accountId, inflight[i].attached)
            /\ deposited' = [deposited EXCEPT ![accountId] = @ + TypedAmount(inflight[i].input)]
            /\ AfterDeposit
            /\ log' = log \o <<"settled", "getCreditsFromContract",
                               "setShowNotification", "setTimeout", "enable">>
            /\ UNCHANGED alerts
       ELSE /\ alerts' = alerts + 1
            /\ log' = log \o <<"settled", "alert", "enable", "throw">>
            /\ UNCHANGED <<balance, deposited, pendingFetches, getCreditsCalls,
                           showNotification, timers>>

DepositSettlesNoThrow(i, ok) ==
  /\ i \in 1..Len(inflight)
  /\ inflight' = RemoveAt(inflight, i)
  /\ SettleFrame
  /\ fieldsetDisabled' = FALSE
  /\ AfterDeposit
  /\ IF ok
       THEN /\ balance' = ContractDeposit(balance, accountId, inflight[i].attached)
            /\ deposited' = [deposited EXCEPT ![accountId] = @ + TypedAmount(inflight[i].input)]
            /\ log' = log \o <<"settled", "enable", "getCreditsFromContract",
                               "setShowNotification", "setTimeout">>
            /\ UNCHANGED alerts
       ELSE /\ alerts' = alerts + 1
            /\ log' = log \o <<"settled", "alert", "enable", "getCreditsFromContract",
                               "setShowNotification", "setTimeout">>
            /\ UNCHANGED <<balance, deposited>>

DepositSettles(i, ok) ==
  /\ i \in 1..Len(inflight)
  /\ inflight' = RemoveAt(inflight, i)
  /\ SettleFrame
  /\ fieldsetDisabled' = FALSE
  /\ IF ok
       THEN /\ balance' = ContractDeposit(balance, accountId, inflight[i].attached)
            /\ deposited' = [deposited EXCEPT ![accountId] = @ + TypedAmount(inflight[i].input)]
            /\ AfterDeposit
            /\ log' = log \o <<"settled", "enable", "getCreditsFromContract",
                               "setShowNotification", "setTimeout">>
            /\ UNCHANGED alerts
       ELSE /\ alerts' = alerts + 1
            /\ log' = log \o <<"settled", "alert", "enable", "throw">>
            /\ UNCHANGED <<balance, deposited, pendingFetches, getCreditsCalls,
                           showNotification, timers>>

\* ---------------------------------------------------------------- timers
\* One second passes for every pending timer; a timer that is due waits to
\* be fired.
Tick ==
  /\ \E k \in 1..Len(timers) : timers[k] > 0
  /\ timers' = [k \in 1..Len(timers) |-> Max(timers[k] - 1, 0)]
  /\ UNCHANGED <<sessionVars, contractVars, initVars, mounted, credits,
                 showNotification, fieldsetDisabled, inflight, pendingFetches,
                 submits, getCreditsCalls, lastFetched, alerts, log>>

\* The setTimeout callback: setShowNotification(false). Timers of equal delay
\* fire in the order they were scheduled.
TimerFiresLastOnly ==
  /\ timers # <<>>
  /\ Head(timers) = 0
  /\ timers' = Tail(timers)
  /\ showNotification' = IF Len(timers) = 1 THEN FALSE ELSE showNotification
  /\ UNCHANGED <<sessionVars, contractVars, initVars, mounted, credits,
                 fieldsetDisabled, inflight, pendingFetches, submits,
                 getCreditsCalls, lastFetched, alerts, log>>

TimerFires ==
  /\ timers # <<>>
  /\ Head(timers) = 0
  /\ timers' = Tail(timers)
  /\ showNotification' = FALSE
  /\ UNCHANGED <<sessionVars, contractVars, initVars, mounted, credits,
                 fieldsetDisabled, inflight, pendingFetches, submits,
                 getCreditsCalls, lastFetched, alerts, log>>

\* ----------------------------------------------------------- behaviours
SubmitForm == \E depositAmount \in DepositInputs : Submit(depositAmount)

DepositSettled == \E i \in 1..Len(inflight), ok \in BOOLEAN : DepositSettles(i, ok)

Next ==
  \/ CallInitContract
  \/ NewSettles
  \/ Mount
  \/ GetCreditsResolves
  \/ GetCreditsRejects
  \/ SubmitForm
  \/ DepositSettled
  \/ Tick
  \/ TimerFires

Spec == Init /\ [][Next]_vars

\* Awaited deposit calls settle, time passes and due timers fire.
FairSpec ==
  /\ Spec
  /\ WF_vars(DepositSettled)
  /\ WF_vars(Tick)
  /\ WF_vars(TimerFires)


\* ---------------------------------------------------------------- claims
\* Deposit calls that resolved.
Successes == submits - Len(inflight) - alerts

\* Decimal string of a natural number.
RECURSIVE Digits(_)
Digits(n) == IF n < 10 THEN <<n>> ELSE Digits(n \div 10) \o <<n % 10>>

\* N units of 10^-MaxFracLen in base units: N followed by the remaining
\* zeros of the 24, "0" for none.
BaseUnits(n) ==
  IF n = 0 THEN <<0>> ELSE Digits(n) \o Zeros(NearNominationExp - MaxFracLen)

\* The event occurs in the log of the latest submission.
Occurs(e) == \E k \in 1..Len(log) : log[k] = e

\* The event b occurs in the log only after an occurrence of the event a.
Precedes(a, b) ==
  \A j \in 1..Len(log) : log[j] = b => \E i \in 1..(j - 1) : log[i] = a

\* C1: a disabled form is always enabled again: the step in which an awaited
\* deposit call settles, resolved or rejected, leaves the fieldset enabled,
\* and every disabled fieldset is eventually enabled.
C1_FormReenabled ==
  /\ [][Len(inflight') < Len(inflight) => ~fieldsetDisabled']_vars
  /\ (fieldsetDisabled ~> ~fieldsetDisabled)

\* C1 witness: a deposit call was issued and rejected, and the form is
\* enabled.
C1_Witness ==
  Occurs("settled") /\ Occurs("alert") /\ inflight = <<>> /\ ~fieldsetDisabled

\* C2: every successful deposit sets the notification flag, only a timer
\* clears it, and a set flag is eventually cleared with no further
\* submission needed.
C2_NotificationAutoDismiss ==
  /\ [][Successes' > Successes => showNotification']_vars
  /\ [][(showNotification /\ ~showNotification') => Len(timers') < Len(timers)]_vars
  /\ (showNotification ~> ~showNotification)

\* C2 witness: after a successful deposit the last timer has fired and the
\* notification is hidden.
C2_Witness == Successes > 0 /\ timers = <<>> /\ ~showNotification

\* C3: signed out, no get_credits call is ever issued, only the sign-in
\* prompt is rendered and no deposit is submitted.
C3_SignedOutGating ==
  ~signedIn =>
    /\ getCreditsCalls = 0
    /\ pendingFetches = 0
    /\ lastFetched = Undefined
    /\ Render = "SignInPrompt"
    /\ submits = 0
    /\ inflight = <<>>

\* C3 witness: the component is mounted in a signed-out session.
C3_Witness == ~signedIn /\ mounted

\* C4: initContract raises exactly when new() failed with a text that does
\* not contain "Already initialized!"; the rejection of a repeated new() is
\* swallowed; a raised error aborts start-up.
C4_InitContractRaises ==
  /\ initResult # "none" =>
       (initResult = "raised" <=>
          (newOutcome.rejected
             /\ ~RegexTest(AlreadyInitializedPattern, newOutcome.text)))
  /\ newOutcome = Rejected(AlreadyInitializedError) => initResult = "returned"
  /\ initResult = "raised" => ~mounted /\ initPc = "idle"

\* C4 witness: a repeated initContract call returned after the contract
\* rejected new() as already initialized.
C4_Witness ==
  /\ initialized
  /\ newOutcome = Rejected(AlreadyInitializedError)
  /\ initResult = "returned"

\* C5: every account's credits are the sum of the amounts attached to its
\* resolved deposits, a whole unit counting 10^24, "0" without deposits; get_credits returns that value and leaves the
\* balance alone.
C5_CreditsAreSumOfDeposits ==
  /\ [](\A a \in Accounts : ContractGetCredits(balance, a) = BaseUnits(deposited[a]))
  /\ [][pendingFetches' < pendingFetches =>
          /\ balance' = balance
          /\ lastFetched' # lastFetched =>
               lastFetched' = BaseUnits(deposited[accountId])]_vars

\* C5 witness: two deposits (0.5 and 10 units) were credited and fetched,
\* the other account still has "0".
C5_Witness ==
  /\ deposited[accountId] = 105
  /\ MaxFracLen = 1
  /\ lastFetched = <<1, 0, 5>> \o Zeros(NearNominationExp - 1)
  /\ \E a \in Accounts : a # accountId /\ balance[a] = <<0>>

\* C6: once a credits fetch has resolved, the credits state holds the
\* fetched value.
C6_CreditsOverwritten == lastFetched # Undefined => credits = lastFetched

\* C7, as claimed: within a submission, disable, deposit call, settle,
\* enable are in this order, the form is enabled only after the deposit call
\* has settled, and enable is before the re-fetch, the notification flag and
\* the timer.
C7_SubmissionOrder ==
  /\ Precedes("disable", "deposit")
  /\ Precedes("deposit", "settled")
  /\ Precedes("settled", "enable")
  /\ Precedes("enable", "getCreditsFromContract")
  /\ Precedes("enable", "setShowNotification")
  /\ Precedes("enable", "setTimeout")
  /\ (log # <<>> /\ inflight = <<>>) => Occurs("enable")

\* C7, amended: the same order whenever the deposit call is issued; when
\* parseNearAmount throws, no call is issued and the form is disabled,
\* the alert shown and the form enabled in the submit step, with no
\* re-fetch, notification or timer.
C7_SubmissionOrderWhenCalled ==
  /\ Precedes("disable", "deposit")
  /\ Precedes("deposit", "settled")
  /\ Precedes("disable", "enable")
  /\ Occurs("deposit") => Precedes("settled", "enable")
  /\ ~Occurs("deposit") =>
       /\ Precedes("alert", "enable")
       /\ Precedes("disable", "alert")
       /\ ~Occurs("getCreditsFromContract")
       /\ ~Occurs("setShowNotification")
       /\ ~Occurs("setTimeout")
  /\ Precedes("enable", "getCreditsFromContract")
  /\ Precedes("enable", "setShowNotification")
  /\ Precedes("enable", "setTimeout")
  /\ (log # <<>> /\ inflight = <<>>) => Occurs("enable")

\* C7 witness: a submission ran to the scheduling of its timer.
C7_Witness == log # <<>> /\ log[Len(log)] = "setTimeout"

\* C8, as claimed: while the timer of the latest successful deposit is
\* pending, the notification is visible.
C8_LastScheduledHideWins == timers # <<>> => showNotification

\* C8, amended: every timer that fires hides the notification, also the
\* timer of an earlier deposit while a later one is pending; the flag is
\* cleared only by a timer that is due, and is visible only while a timer
\* is pending.
C8_EarliestTimerHides ==
  /\ [][Len(timers') < Len(timers) => ~showNotification']_vars
  /\ [][(showNotification /\ ~showNotification') =>
          (Len(timers') < Len(timers) /\ Head(timers) = 0)]_vars
  /\ [](showNotification => timers # <<>>)

\* C8 witness: two deposits succeeded, the earlier timer has fired and the
\* notification is hidden while the later timer is still counting down.
C8_Witness ==
  Successes = 2 /\ Len(timers) = 1 /\ timers[1] > 0 /\ ~showNotification

\* C9: at most one deposit call of the form is in flight, and the fieldset
\* is disabled exactly while it is.
C9_OneDepositInFlight ==
  /\ Len(inflight) <= 1
  /\ fieldsetDisabled <=> Len(inflight) = 1

\* C9 witness: a second submission is in flight after the first settled.
C9_Witness == submits = 2 /\ Len(inflight) = 1 /\ fieldsetDisabled

\* C10: a rejected deposit call only re-enables the form; the notification,
\* the timer and the re-fetch after mount come only with a resolved call.
C10_FailedDepositChangesNothing ==
  /\ [][alerts' > alerts =>
          /\ ~fieldsetDisabled'
          /\ UNCHANGED <<showNotification, timers, pendingFetches,
                         getCreditsCalls, credits, balance>>]_vars
  /\ [][(\/ Len(timers') > Len(timers)
         \/ (~showNotification /\ showNotification')
         \/ (mounted /\ getCreditsCalls' > getCreditsCalls))
        => Successes' > Successes]_vars

\* C10 witness: a deposit call was rejected while the notification of an
\* earlier deposit was visible and its timer pending.
C10_Witness ==
  /\ alerts = 1 /\ Successes = 1 /\ inflight = <<>>
  /\ Occurs("settled") /\ Occurs("alert")
  /\ showNotification /\ Len(timers) = 1

====
